---- MODULE Spec2Model ----
(***************************************************************************)
(* Verification model of the DAX optimizer scripts (dax_optimizer.py and   *)
(* dax_optimizer_simple.py): the segmenter parse_dax_file, the reply       *)
(* extractor parse_response and the per-record loop of process_dax_file.   *)
(*                                                                         *)
(* A Python str is modelled as a sequence of one-character strings, so     *)
(* that strip, split, join, startswith, `in', upper, replace and the       *)
(* separator regular expression are computed character by character.      *)
(* None is the empty tuple and an assigned optional value v is <<v>>.      *)
(***************************************************************************)
EXTENDS Integers, Sequences, FiniteSets, TLC

VARIABLES
    pc,               \* position in the function under analysis
    variant,          \* "full": dax_optimizer.py, "simple": dax_optimizer_simple.py
    content,          \* the text of the input file
    lines,            \* parse_dax_file: content.split('\n')
    pos,              \* parse_dax_file: index of the line the for loop takes next
    current_measure,  \* parse_dax_file: None or the open record's identifier
    current_dax,      \* parse_dax_file: the open record's body lines
    in_dax_block,     \* parse_dax_file: the open flag
    expressions,      \* parse_dax_file: the records emitted so far
    response,         \* parse_response: the reply text
    rlines,           \* parse_response: response.split('\n')
    rpos,             \* parse_response: index of the line the for loop takes next
    current_section,  \* parse_response: None or the current section key
    section_found,    \* parse_response: some header was recognised
    result,           \* parse_response: the four-key mapping
    results,          \* process_dax_file: the result entries appended so far
    outcomes,         \* process_dax_file: what each external call did (reply or raise)
    written           \* process_dax_file: the report and debug files were written

vars == <<pc, variant, content, lines, pos, current_measure, current_dax,
          in_dax_block, expressions, response, rlines, rpos, current_section,
          section_found, result, results, outcomes, written>>

segVars == <<current_measure, current_dax, in_dax_block, expressions>>
extVars == <<response, rlines, rpos, current_section, section_found, result>>
runVars == <<results, outcomes, written>>

-----------------------------------------------------------------------------
(* Bounds of the model.                                                    *)

\* longest free-form document, in lines, the segmenter is run on
MaxLines == 4
\* most blocks of a document in the expected format the segmenter is run on
MaxBlocks == 2
\* longest free-form reply, in lines, the extractor is run on
MaxReplyLines == 3
\* most lines between the two fences of a fenced reply
MaxFencedLines == 2

-----------------------------------------------------------------------------
(* Python str operations.                                                  *)

\* the backquote character (it cannot be written inside a TLA+ string)
BT == "BACKTICK"
NL == "\n"
None == <<>>
EmptyStr == <<>>

\* the characters str.strip() removes
Whitespace == {" ", "\t", "\n", "\r"}

RECURSIVE LStrip(_)
LStrip(s) == IF s # <<>> /\ Head(s) \in Whitespace THEN LStrip(Tail(s)) ELSE s

RECURSIVE RStrip(_)
RStrip(s) ==
    IF s # <<>> /\ s[Len(s)] \in Whitespace
    THEN RStrip(SubSeq(s, 1, Len(s) - 1))
    ELSE s

\* str.strip()
Strip(s) == RStrip(LStrip(s))

\* s.startswith(p)
StartsWith(s, p) == Len(s) >= Len(p) /\ SubSeq(s, 1, Len(p)) = p

\* p in s
Contains(s, p) == \E k \in 0..(Len(s) - Len(p)) : SubSeq(s, k + 1, k + Len(p)) = p

\* s.split('\n'): always at least one piece, the empty string splits to ['']
RECURSIVE Split(_)
Split(s) ==
    IF \A k \in 1..Len(s) : s[k] # NL
    THEN <<s>>
    ELSE LET k == CHOOSE j \in 1..Len(s) :
                      s[j] = NL /\ \A h \in 1..(j - 1) : s[h] # NL
         IN  <<SubSeq(s, 1, k - 1)>> \o Split(SubSeq(s, k + 1, Len(s)))

\* '\n'.join(ls)
RECURSIVE Join(_)
Join(ls) ==
    IF ls = <<>> THEN <<>>
    ELSE IF Len(ls) = 1 THEN ls[1]
    ELSE ls[1] \o <<NL>> \o Join(Tail(ls))

\* s.replace(p, ''): leftmost non-overlapping occurrences, p non-empty
RECURSIVE Remove(_, _)
Remove(s, p) ==
    IF s = <<>> THEN <<>>
    ELSE IF StartsWith(s, p) THEN Remove(SubSeq(s, Len(p) + 1, Len(s)), p)
    ELSE <<Head(s)>> \o Remove(Tail(s), p)

\* truthiness of an optional str: neither None nor ''
Truthy(opt) == opt # None /\ opt[1] # EmptyStr

-----------------------------------------------------------------------------
(* parse_dax_file: line classification.                                    *)

\* the {10,} of the separator regular expression
MinSepLen == 10

\* re.match(r'^[-=]{10,}$', stripped)
is_separator(stripped) ==
    /\ Len(stripped) >= MinSepLen
    /\ \A k \in 1..Len(stripped) : stripped[k] \in {"-", "="}

\* 'DAX MEASURES'
DAX_MEASURES == <<"D", "A", "X", " ", "M", "E", "A", "S", "U", "R", "E", "S">>
Folder == <<"F", "o", "l", "d", "e", "r">>

\* a bug: the simple variant skips no header line at all
is_header_SimpleSkipsNone(stripped, v) ==
    IF v = "full"
    THEN Contains(stripped, DAX_MEASURES) \/ Contains(stripped, Folder)
    ELSE FALSE

\* the skip-marker test of each variant
is_header(stripped, v) ==
    IF v = "full"
    THEN Contains(stripped, DAX_MEASURES) \/ Contains(stripped, Folder)
    ELSE Contains(stripped, DAX_MEASURES)

\* stripped.startswith('[') and ']' in stripped
is_measure_name(stripped) ==
    StartsWith(stripped, <<"[">>) /\ Contains(stripped, <<"]">>)

\* a bug: the content branch written as "elif stripped:", without the flag
LineClass_IgnoresOpenFlag(line, v, open) ==
    LET stripped == Strip(line)
    IN  IF is_separator(stripped) THEN "separator"
        ELSE IF is_header(stripped, v) THEN "header"
        ELSE IF is_measure_name(stripped) THEN "measure"
        ELSE IF stripped # EmptyStr THEN "content"
        ELSE "none"

\* a bug: the identifier test tried before the header test
LineClass_IdentifierFirst(line, v, open) ==
    LET stripped == Strip(line)
    IN  IF is_separator(stripped) THEN "separator"
        ELSE IF is_measure_name(stripped) THEN "measure"
        ELSE IF is_header(stripped, v) THEN "header"
        ELSE IF stripped # EmptyStr /\ open THEN "content"
        ELSE "none"

\* the branch of the if/elif chain a line takes
LineClass(line, v, open) ==
    LET stripped == Strip(line)
    IN  IF is_separator(stripped) THEN "separator"
        ELSE IF is_header(stripped, v) THEN "header"
        ELSE IF is_measure_name(stripped) THEN "measure"
        ELSE IF stripped # EmptyStr /\ open THEN "content"
        ELSE "none"

-----------------------------------------------------------------------------
(* parse_dax_file: the state machine over                                  *)
(* [current_measure, current_dax, in_dax_block, expressions].              *)

SegStart ==
    [current_measure |-> None, current_dax |-> <<>>,
     in_dax_block |-> FALSE, expressions |-> <<>>]

\* a bug: the save guarded by "if current_measure:" alone
SaveIfComplete_NoBodyCheck(st) ==
    IF Truthy(st.current_measure)
    THEN Append(st.expressions,
                [measure_name |-> st.current_measure[1],
                 dax_code |-> Strip(Join(st.current_dax))])
    ELSE st.expressions

\* a bug: a record is not saved when one with its identifier exists already
SaveIfComplete_Dedup(st) ==
    IF /\ Truthy(st.current_measure) /\ st.current_dax # <<>>
       /\ \A k \in 1..Len(st.expressions) :
              st.expressions[k].measure_name # st.current_measure[1]
    THEN Append(st.expressions,
                [measure_name |-> st.current_measure[1],
                 dax_code |-> Strip(Join(st.current_dax))])
    ELSE st.expressions

\* "if current_measure and current_dax: ... if dax_code: expressions.append"
SaveIfComplete(st) ==
    IF Truthy(st.current_measure) /\ st.current_dax # <<>>
    THEN LET dax_code == Strip(Join(st.current_dax))
         IN  IF dax_code # EmptyStr
             THEN Append(st.expressions,
                         [measure_name |-> st.current_measure[1],
                          dax_code |-> dax_code])
             ELSE st.expressions
    ELSE st.expressions

\* a bug: the separator branch resets without saving the open record
OnSeparator_NoSave(st) ==
    [current_measure |-> None, current_dax |-> <<>>,
     in_dax_block |-> FALSE, expressions |-> st.expressions]

\* a bug: the reset placed inside "if current_measure and current_dax:", so
\* an incomplete record stays open across the separator
OnSeparator_ResetsOnlyComplete(st) ==
    IF Truthy(st.current_measure) /\ st.current_dax # <<>>
    THEN [current_measure |-> None, current_dax |-> <<>>,
          in_dax_block |-> FALSE, expressions |-> SaveIfComplete(st)]
    ELSE st

\* a bug: "in_dax_block = False" left out of the separator branch
OnSeparator_LeavesFlag(st) ==
    [current_measure |-> None, current_dax |-> <<>>,
     in_dax_block |-> st.in_dax_block, expressions |-> SaveIfComplete(st)]

\* the is_separator branch
OnSeparator(st) ==
    [current_measure |-> None, current_dax |-> <<>>,
     in_dax_block |-> FALSE, expressions |-> SaveIfComplete(st)]

\* a bug: a header line handled like a separator
OnHeader_EndsRecord(st) ==
    [current_measure |-> None, current_dax |-> <<>>,
     in_dax_block |-> FALSE, expressions |-> SaveIfComplete(st)]

\* the is_header branch: continue
OnHeader(st) == st

\* the is_measure_name branch
OnMeasureName(st, stripped) ==
    [current_measure |-> <<stripped>>, current_dax |-> <<>>,
     in_dax_block |-> TRUE, expressions |-> SaveIfComplete(st)]

\* the "stripped and in_dax_block" branch
OnContent(st, stripped) ==
    [st EXCEPT !.current_dax = Append(st.current_dax, stripped)]

\* one iteration of "for line in lines"
SegStep(st, line, v) ==
    LET stripped == Strip(line)
        class == LineClass(line, v, st.in_dax_block)
    IN  CASE class = "separator" -> OnSeparator(st)
          [] class = "header" -> OnHeader(st)
          [] class = "measure" -> OnMeasureName(st, stripped)
          [] class = "content" -> OnContent(st, stripped)
          [] OTHER -> st

RECURSIVE SegFold(_, _, _)
SegFold(st, ls, v) ==
    IF ls = <<>> THEN st ELSE SegFold(SegStep(st, Head(ls), v), Tail(ls), v)

\* parse_dax_file(content) of variant v
parse_dax_file(text, v) == SaveIfComplete(SegFold(SegStart, Split(text), v))

-----------------------------------------------------------------------------
(* parse_response: header recognition.                                     *)

Keys == {"optimized", "improvements", "edge_cases", "performance"}

\* the (header, key) table, in the order the inner loop tries it
sections ==
    \* 'OPTIMIZED DAX'
    << <<<<"O", "P", "T", "I", "M", "I", "Z", "E", "D", " ", "D", "A", "X">>, "optimized">>,
       \* 'OPTIMIZED'
       <<<<"O", "P", "T", "I", "M", "I", "Z", "E", "D">>, "optimized">>,
       \* 'IMPROVEMENTS MADE'
       <<<<"I", "M", "P", "R", "O", "V", "E", "M", "E", "N", "T", "S", " ", "M", "A", "D", "E">>, "improvements">>,
       \* 'IMPROVEMENTS'
       <<<<"I", "M", "P", "R", "O", "V", "E", "M", "E", "N", "T", "S">>, "improvements">>,
       \* 'EDGE CASES HANDLED'
       <<<<"E", "D", "G", "E", " ", "C", "A", "S", "E", "S", " ", "H", "A", "N", "D", "L", "E", "D">>, "edge_cases">>,
       \* 'EDGE CASES'
       <<<<"E", "D", "G", "E", " ", "C", "A", "S", "E", "S">>, "edge_cases">>,
       \* 'PERFORMANCE NOTES'
       <<<<"P", "E", "R", "F", "O", "R", "M", "A", "N", "C", "E", " ", "N", "O", "T", "E", "S">>, "performance">>,
       \* 'PERFORMANCE'
       <<<<"P", "E", "R", "F", "O", "R", "M", "A", "N", "C", "E">>, "performance">> >>

\* 'abcdefghijklmnopqrstuvwxyz'
LowerCase == <<"a", "b", "c", "d", "e", "f", "g", "h", "i", "j", "k", "l", "m", "n", "o", "p", "q", "r", "s", "t", "u", "v", "w", "x", "y", "z">>
\* 'ABCDEFGHIJKLMNOPQRSTUVWXYZ'
UpperCase == <<"A", "B", "C", "D", "E", "F", "G", "H", "I", "J", "K", "L", "M", "N", "O", "P", "Q", "R", "S", "T", "U", "V", "W", "X", "Y", "Z">>

UpperChar(c) ==
    IF \E k \in 1..Len(LowerCase) : LowerCase[k] = c
    THEN UpperCase[CHOOSE k \in 1..Len(LowerCase) : LowerCase[k] = c]
    ELSE c

\* str.upper()
Upper(s) == [k \in 1..Len(s) |-> UpperChar(s[k])]

\* a bug: "header in line_upper" left out of the condition
HeaderMatches_NoContains(line_upper, header) ==
    \/ StartsWith(line_upper, header)
    \/ StartsWith(line_upper, <<"*", "*">> \o header)
    \/ StartsWith(line_upper, <<"#", "#", "#">>)
    \/ StartsWith(line_upper, <<"#", "#">>)

\* the condition of the inner loop for one table entry
HeaderMatches(line_upper, header) ==
    /\ Contains(line_upper, header)
    /\ \/ StartsWith(line_upper, header)
       \/ StartsWith(line_upper, <<"*", "*">> \o header)
       \/ StartsWith(line_upper, <<"#", "#", "#">>)
       \/ StartsWith(line_upper, <<"#", "#">>)

\* the key the inner loop breaks on for the case-folded trimmed line, or
\* None when found_header stays False
KeyOfUpper(line_upper) ==
    LET hits == { k \in 1..Len(sections) : HeaderMatches(line_upper, sections[k][1]) }
    IN  IF hits = {} THEN None
        ELSE <<sections[CHOOSE k \in hits : \A h \in hits : k <= h][2]>>

\* "line_upper = line.upper().strip()", then the inner loop
HeaderKey(line) ==
    CHOOSE key \in { KeyOfUpper(line_upper) : line_upper \in {Strip(Upper(line))} } : TRUE

FENCE == <<BT, BT, BT>>
FENCE_DAX == <<BT, BT, BT, "d", "a", "x">>

\* a bug: only the two exact markers are skipped, not a fence with another tag
IsFence_ExactOnly(line) ==
    LET stripped == Strip(line)
    IN  stripped = FENCE \/ stripped = FENCE_DAX

\* "stripped == '```' or stripped == '```dax' or stripped.startswith('```')"
IsFence(line) ==
    LET stripped == Strip(line)
    IN  stripped = FENCE \/ stripped = FENCE_DAX \/ StartsWith(stripped, FENCE)

\* 'See raw response for details'
PLACEHOLDER == <<"S", "e", "e", " ", "r", "a", "w", " ", "r", "e", "s", "p", "o", "n", "s", "e", " ", "f", "o", "r", " ", "d", "e", "t", "a", "i", "l", "s">>

-----------------------------------------------------------------------------
(* parse_response: the state machine over                                  *)
(* [current_section, section_found, result].                               *)

\* a bug: lines before the first header are captured under a default section
ExtStart_DefaultSection ==
    [current_section |-> <<"optimized">>, section_found |-> FALSE,
     result |-> [k \in Keys |-> EmptyStr]]

ExtStart ==
    [current_section |-> None, section_found |-> FALSE,
     result |-> [k \in Keys |-> EmptyStr]]

\* a recognised header line
OnSectionHeader(st, key) ==
    [st EXCEPT !.current_section = key, !.section_found = TRUE]

\* a bug: the line stored under the inner loop's last key, not the current one
Capture_StaleKey(st, line) ==
    [st EXCEPT !.result["performance"] = @ \o line \o <<NL>>]

\* "result[current_section] += line + '\n'"
Capture(st, line) ==
    [st EXCEPT !.result[st.current_section[1]] = @ \o line \o <<NL>>]

\* what one line does: "header", "fence", "capture" or "drop"
ReplyLineClass(line, section) ==
    IF HeaderKey(line) # None THEN "header"
    ELSE IF section = None THEN "drop"
    ELSE IF IsFence(line) THEN "fence"
    ELSE IF Strip(line) # EmptyStr THEN "capture"
    ELSE "drop"

\* one iteration of "for i, line in enumerate(lines)"
ExtStep(st, line) ==
    LET class == ReplyLineClass(line, st.current_section)
    IN  CASE class = "header" -> OnSectionHeader(st, HeaderKey(line))
          [] class = "capture" -> Capture(st, line)
          [] OTHER -> st

RECURSIVE ExtFold(_, _)
ExtFold(st, ls) ==
    IF ls = <<>> THEN st ELSE ExtFold(ExtStep(st, Head(ls)), Tail(ls))

\* "cleaned = response.replace('```dax', '').replace('```', '').strip()"
Cleaned(text) == Strip(Remove(Remove(text, FENCE_DAX), FENCE))

\* "if not section_found:"
Fallback(res, text) ==
    [res EXCEPT !["optimized"] = Cleaned(text), !["improvements"] = PLACEHOLDER]

\* a bug: the final whitespace clean-up left out
CleanUp_NoStrip(res) == res

\* "for key in result: result[key] = result[key].strip()"
CleanUp(res) == [k \in DOMAIN res |-> Strip(res[k])]

\* the mapping returned for the loop's final state
Returned(st, text) ==
    CleanUp(IF st.section_found THEN st.result ELSE Fallback(st.result, text))

\* parse_response(response)
parse_response(text) == Returned(ExtFold(ExtStart, Split(text)), text)

-----------------------------------------------------------------------------
(* Inputs of the segmenter: free-form documents of up to MaxLines lines,    *)
(* each line one of LinePool, and documents in the expected format of up   *)
(* to MaxBlocks blocks.  Any text is the '\n'-join of its lines.           *)

LinePool ==
    { <<"[", "M", "]">>,             \* an identifier line
      <<" ", "[", "N", "]", " ">>,           \* an identifier line with surrounding blanks
      <<" ", "x", " ">>,             \* a content line with surrounding blanks
      \* '---------'
      <<"-", "-", "-", "-", "-", "-", "-", "-", "-">>,       \* nine dashes: one short of a separator
      <<>>,                \* a blank line
      \* '=========-'
      <<"=", "=", "=", "=", "=", "=", "=", "=", "=", "-">>,      \* a separator of ten mixed characters
      \* 'DAX MEASURES'
      <<"D", "A", "X", " ", "M", "E", "A", "S", "U", "R", "E", "S">>,    \* a header line of both variants
      \* '[Folder]'
      <<"[", "F", "o", "l", "d", "e", "r", "]">> }       \* bracketed, and holding the marker 'Folder'

FreeDocuments == UNION { [1..n -> LinePool] : n \in 1..MaxLines }

\* '=========-'
SEPARATOR_LINE == <<"=", "=", "=", "=", "=", "=", "=", "=", "=", "-">>
\* '[Folder]'
BlockIdentifiers == { <<"[", "M", "]">>, <<" ", "[", "N", "]", " ">>, <<"[", "F", "o", "l", "d", "e", "r", "]">> }
\* '---------'
BlockTexts == { <<" ", "x", " ">>, <<"-", "-", "-", "-", "-", "-", "-", "-", "-">> }

\* an identifier line, then one content line, a blank line and one content
\* line, or two different content lines
Blocks ==
    { <<i, c>> : i \in BlockIdentifiers, c \in BlockTexts }
        \cup { <<i, EmptyStr, c>> : i \in BlockIdentifiers, c \in {<<" ", "x", " ">>} }
        \cup { <<i, p[1], p[2]>> : i \in BlockIdentifiers,
                p \in { q \in BlockTexts \X BlockTexts : q[1] # q[2] } }

\* the documents of exactly n blocks with a separator line between them
RECURSIVE BlockDocs(_)
BlockDocs(n) ==
    IF n = 1 THEN Blocks
    ELSE { d \o <<SEPARATOR_LINE>> \o b : d \in BlockDocs(n - 1), b \in Blocks }

\* the same, with or without a separator line after the last block
BlockDocuments ==
    UNION { BlockDocs(n) \cup { d \o <<SEPARATOR_LINE>> : d \in BlockDocs(n) } :
            n \in 1..MaxBlocks }

MarkerPool ==
    \* 'DAX MEASURES - Folder1'
    { <<"D", "A", "X", " ", "M", "E", "A", "S", "U", "R", "E", "S", " ", "-", " ", "F", "o", "l", "d", "e", "r", "1">>,  \* both markers, as in the code's comment
      \* '[DAX MEASURES]'
      <<"[", "D", "A", "X", " ", "M", "E", "A", "S", "U", "R", "E", "S", "]">>,          \* bracketed, and holding 'DAX MEASURES'
      \* '[Folder1]'
      <<"[", "F", "o", "l", "d", "e", "r", "1", "]">>,               \* bracketed, and holding 'Folder' alone
      \* 'Folder notes'
      <<"F", "o", "l", "d", "e", "r", " ", "n", "o", "t", "e", "s">> }           \* plain text holding 'Folder' alone

\* a block with one marker line inside it and one after it
MarkerDocuments ==
    { << <<"[", "M", "]">>, h, <<" ", "x", " ">>, g, <<" ", "y", " ">> >> : h \in MarkerPool, g \in MarkerPool }

Documents == FreeDocuments \cup BlockDocuments \cup MarkerDocuments

Variants == {"full", "simple"}

SegState ==
    [current_measure |-> current_measure, current_dax |-> current_dax,
     in_dax_block |-> in_dax_block, expressions |-> expressions]

SegAssign(st) ==
    /\ current_measure' = st.current_measure
    /\ current_dax' = st.current_dax
    /\ in_dax_block' = st.in_dax_block
    /\ expressions' = st.expressions

ExtIdle ==
    /\ response = EmptyStr
    /\ rlines = <<>>
    /\ rpos = 1
    /\ current_section = None
    /\ section_found = FALSE
    /\ result = [k \in Keys |-> EmptyStr]

RunIdle ==
    /\ results = <<>>
    /\ outcomes = <<>>
    /\ written = FALSE

SegIdle ==
    /\ lines = <<>>
    /\ pos = 1
    /\ current_measure = None
    /\ current_dax = <<>>
    /\ in_dax_block = FALSE
    /\ expressions = <<>>

\* parse_dax_file entered with some document: locals initialised
InitSegment ==
    /\ pc = "seg"
    /\ variant \in Variants
    /\ \E ls \in Documents : content = Join(ls)
    /\ lines = Split(content)
    /\ pos = 1
    /\ current_measure = None
    /\ current_dax = <<>>
    /\ in_dax_block = FALSE
    /\ expressions = <<>>
    /\ ExtIdle
    /\ RunIdle

\* the for loop is at line pos, which falls in the branch `class'
SegAt(class) ==
    /\ pc = "seg"
    /\ pos <= Len(lines)
    /\ LineClass(lines[pos], variant, in_dax_block) = class

SegAdvance ==
    /\ pos' = pos + 1
    /\ UNCHANGED <<pc, variant, content, lines, extVars, runVars>>

\* "if is_separator:"
SeparatorLine ==
    /\ SegAt("separator")
    /\ SegAssign(OnSeparator(SegState))
    /\ SegAdvance

\* "elif is_header: continue"
HeaderLine ==
    /\ SegAt("header")
    /\ SegAssign(OnHeader(SegState))
    /\ SegAdvance

\* "elif is_measure_name:"
MeasureNameLine ==
    /\ SegAt("measure")
    /\ SegAssign(OnMeasureName(SegState, Strip(lines[pos])))
    /\ SegAdvance

\* "elif stripped and in_dax_block:"
ContentLine ==
    /\ SegAt("content")
    /\ SegAssign(OnContent(SegState, Strip(lines[pos])))
    /\ SegAdvance

\* no branch taken: a blank line, or a content line while no record is open
IgnoredLine ==
    /\ SegAt("none")
    /\ UNCHANGED segVars
    /\ SegAdvance

\* a bug: the loop's result returned without the save after the loop
SegReturn_NoFlush ==
    /\ pc = "seg"
    /\ pos > Len(lines)
    /\ pc' = "seg_done"
    /\ UNCHANGED <<variant, content, lines, pos, segVars, extVars, runVars>>

\* after the loop: "Don't forget the last expression", return expressions
SegReturn ==
    /\ pc = "seg"
    /\ pos > Len(lines)
    /\ expressions' = SaveIfComplete(SegState)
    /\ pc' = "seg_done"
    /\ UNCHANGED <<variant, content, lines, pos, current_measure, current_dax,
                   in_dax_block, extVars, runVars>>

NextSegment ==
    \/ SeparatorLine
    \/ HeaderLine
    \/ MeasureNameLine
    \/ ContentLine
    \/ IgnoredLine
    \/ SegReturn

SpecSegment == InitSegment /\ [][NextSegment]_vars

-----------------------------------------------------------------------------
(* Inputs of the extractor: free-form replies of up to MaxReplyLines lines *)
(* of ReplyLinePool, and the replies of the requested format: the four     *)
(* literal headers, each followed by one line of TextPool; and the replies *)
(* that hold one fenced block of up to MaxFencedLines lines under a header,*)
(* and the replies of two header-like lines around a line of code.         *)

ReplyLinePool ==
    \* 'OPTIMIZED DAX:'
    { <<"O", "P", "T", "I", "M", "I", "Z", "E", "D", " ", "D", "A", "X", ":">>,         \* a literal header
      \* '**Improvements**'
      <<"*", "*", "I", "m", "p", "r", "o", "v", "e", "m", "e", "n", "t", "s", "*", "*">>,       \* a bold header in mixed case
      \* '## edge cases'
      <<"#", "#", " ", "e", "d", "g", "e", " ", "c", "a", "s", "e", "s">>,          \* a level-two heading
      \* '# Performance'
      <<"#", " ", "P", "e", "r", "f", "o", "r", "m", "a", "n", "c", "e">>,          \* a level-one heading
      \* '### Summary'
      <<"#", "#", "#", " ", "S", "u", "m", "m", "a", "r", "y">>,            \* a heading without a header phrase
      \* ' SUM(x) '
      <<" ", "S", "U", "M", "(", "x", ")", " ">>,               \* a code line with surrounding blanks
      \* 'Performance is better'
      <<"P", "e", "r", "f", "o", "r", "m", "a", "n", "c", "e", " ", "i", "s", " ", "b", "e", "t", "t", "e", "r">>,  \* prose that begins with a header phrase
      <<BT, BT, BT, "d", "a", "x">>,                 \* an opening fence with the dax tag
      <<BT, BT, BT, "s", "q", "l">>,                 \* an opening fence with another tag
      <<BT, BT, BT>>,                    \* a closing fence
      <<>> }                      \* a blank line

FreeReplies == UNION { [1..n -> ReplyLinePool] : n \in 1..MaxReplyLines }

LiteralHeaders ==
    \* 'OPTIMIZED DAX:', 'IMPROVEMENTS MADE:'
    << <<"O", "P", "T", "I", "M", "I", "Z", "E", "D", " ", "D", "A", "X", ":">>, <<"I", "M", "P", "R", "O", "V", "E", "M", "E", "N", "T", "S", " ", "M", "A", "D", "E", ":">>,
       \* 'EDGE CASES HANDLED:', 'PERFORMANCE NOTES:'
       <<"E", "D", "G", "E", " ", "C", "A", "S", "E", "S", " ", "H", "A", "N", "D", "L", "E", "D", ":">>, <<"P", "E", "R", "F", "O", "R", "M", "A", "N", "C", "E", " ", "N", "O", "T", "E", "S", ":">> >>

LiteralKeys == <<"optimized", "improvements", "edge_cases", "performance">>

TextPool ==
    \* '  uses a variable ', 'Performance is better'
    { <<"S", "U", "M", "(", "x", ")">>, <<" ", " ", "u", "s", "e", "s", " ", "a", " ", "v", "a", "r", "i", "a", "b", "l", "e", " ">>, <<"P", "e", "r", "f", "o", "r", "m", "a", "n", "c", "e", " ", "i", "s", " ", "b", "e", "t", "t", "e", "r">>,
      <<BT, BT, BT>>, <<>> }

\* header k at line 2k-1, its text at line 2k
FourHeaderReply(t) ==
    [j \in 1..8 |-> IF j % 2 = 1 THEN LiteralHeaders[(j + 1) \div 2] ELSE t[j \div 2]]

FourHeaderReplies == { FourHeaderReply(t) : t \in [1..4 -> TextPool] }

\* 'OPTIMIZED DAX:', '**Improvements**'
FencedHeaders == { <<"O", "P", "T", "I", "M", "I", "Z", "E", "D", " ", "D", "A", "X", ":">>, <<"*", "*", "I", "m", "p", "r", "o", "v", "e", "m", "e", "n", "t", "s", "*", "*">> }

OpeningFences == { <<BT, BT, BT, "d", "a", "x">>, <<BT, BT, BT, "s", "q", "l">>, <<BT, BT, BT>> }

CodePool ==
    \* ' SUM(x) '
    { <<" ", "S", "U", "M", "(", "x", ")", " ">>,               \* a code line with surrounding blanks
      \* 'RETURN x'
      <<"R", "E", "T", "U", "R", "N", " ", "x">>,
      \* 'Optimized = SUM(x)'
      <<"O", "p", "t", "i", "m", "i", "z", "e", "d", " ", "=", " ", "S", "U", "M", "(", "x", ")">>,     \* a code line that begins with a header phrase
      <<>> }

\* a header, an opening fence, the code lines, the closing fence
FencedReplies ==
    { <<h, f>> \o code \o <<FENCE>> :
        h \in FencedHeaders, f \in OpeningFences,
        code \in UNION { [1..n -> CodePool] : n \in 1..MaxFencedLines } }

HeadingPool ==
    \* '## Notes on performance'
    { <<"#", "#", " ", "N", "o", "t", "e", "s", " ", "o", "n", " ", "p", "e", "r", "f", "o", "r", "m", "a", "n", "c", "e">>,  \* a heading with the phrase further on
      \* '#Performance'
      <<"#", "P", "e", "r", "f", "o", "r", "m", "a", "n", "c", "e">>,             \* one heading marker, then the phrase
      \* '####Optimized'
      <<"#", "#", "#", "#", "O", "p", "t", "i", "m", "i", "z", "e", "d">>,            \* four heading markers, then the phrase
      \* '** Improvements'
      <<"*", "*", " ", "I", "m", "p", "r", "o", "v", "e", "m", "e", "n", "t", "s">>,          \* a bold marker, a blank, then the phrase
      \* 'edge cases handled:'
      <<"e", "d", "g", "e", " ", "c", "a", "s", "e", "s", " ", "h", "a", "n", "d", "l", "e", "d", ":">> }     \* a literal header in lower case

\* a header-like line, a line of code, a header-like line
\* ' SUM(x) '
HeadingReplies == { <<a, <<" ", "S", "U", "M", "(", "x", ")", " ">>, b>> : a \in HeadingPool, b \in HeadingPool }

ReplyLines == FreeReplies \cup FourHeaderReplies \cup FencedReplies \cup HeadingReplies

ExtState ==
    [current_section |-> current_section, section_found |-> section_found,
     result |-> result]

ExtAssign(st) ==
    /\ current_section' = st.current_section
    /\ section_found' = st.section_found
    /\ result' = st.result

\* parse_response entered with some reply: locals initialised
InitExtract ==
    /\ pc = "ext"
    /\ variant = "full"
    /\ content = EmptyStr
    /\ SegIdle
    /\ \E ls \in ReplyLines : response = Join(ls)
    /\ rlines = Split(response)
    /\ rpos = 1
    /\ current_section = ExtStart.current_section
    /\ section_found = ExtStart.section_found
    /\ result = ExtStart.result
    /\ RunIdle

\* the for loop is at line rpos, which does `class'
ExtAt(class) ==
    /\ pc = "ext"
    /\ rpos <= Len(rlines)
    /\ ReplyLineClass(rlines[rpos], current_section) = class

ExtAdvance ==
    /\ rpos' = rpos + 1
    /\ UNCHANGED <<pc, variant, content, lines, pos, segVars, response, rlines, runVars>>

\* "if found_header: continue"
SectionHeaderLine ==
    /\ ExtAt("header")
    /\ ExtAssign(OnSectionHeader(ExtState, HeaderKey(rlines[rpos])))
    /\ ExtAdvance

\* a fence marker inside a section: continue
FenceLine ==
    /\ ExtAt("fence")
    /\ UNCHANGED <<current_section, section_found, result>>
    /\ ExtAdvance

\* "if line.strip(): result[current_section] += line + '\n'"
CapturedLine ==
    /\ ExtAt("capture")
    /\ ExtAssign(Capture(ExtState, rlines[rpos]))
    /\ ExtAdvance

\* a line before the first header, or a blank line
DroppedLine ==
    /\ ExtAt("drop")
    /\ UNCHANGED <<current_section, section_found, result>>
    /\ ExtAdvance

ExtLeave ==
    /\ pc = "ext"
    /\ rpos > Len(rlines)
    /\ result' = Returned(ExtState, response)
    /\ pc' = "ext_done"
    /\ UNCHANGED <<variant, content, lines, pos, segVars, response, rlines, rpos,
                   current_section, section_found, runVars>>

\* after the loop with section_found: clean up and return
ReturnSections == section_found /\ ExtLeave

\* after the loop without section_found: fallback, clean up and return
ReturnFallback == ~section_found /\ ExtLeave

NextExtract ==
    \/ SectionHeaderLine
    \/ FenceLine
    \/ CapturedLine
    \/ DroppedLine
    \/ ReturnSections
    \/ ReturnFallback

SpecExtract == InitExtract /\ [][NextExtract]_vars

-----------------------------------------------------------------------------
(* process_dax_file: the external call and the per-record loop.            *)

\* 'ERROR: '
ERROR_PREFIX == <<"E", "R", "R", "O", "R", ":", " ">>
ERROR_TAG == <<"E", "R", "R", "O", "R", ":">>
\* 'Error occurred: '
ERROR_OCCURRED == <<"E", "r", "r", "o", "r", " ", "o", "c", "c", "u", "r", "r", "e", "d", ":", " ">>
\* 'Raw response:\n'
RAW_RESPONSE == <<"R", "a", "w", " ", "r", "e", "s", "p", "o", "n", "s", "e", ":", "\n">>
ELLIPSIS == <<".", ".", ".">>

\* the 500 of result[:500]
RawLimit == 500

\* s[:n]
Prefix(s, n) == IF Len(s) <= n THEN s ELSE SubSeq(s, 1, n)

\* a bug: the call made without the try/except, so a failure propagates
optimize_dax_expression_NoExcept(outcome) ==
    IF outcome.kind = "reply"
    THEN [raised |-> FALSE, value |-> outcome.text]
    ELSE [raised |-> TRUE, value |-> outcome.text]

\* optimize_dax_expression for one outcome of the external call: the reply
\* text is returned, an exception e is caught and "ERROR: {str(e)}" returned
optimize_dax_expression(outcome) ==
    IF outcome.kind = "reply"
    THEN [raised |-> FALSE, value |-> outcome.text]
    ELSE [raised |-> FALSE, value |-> ERROR_PREFIX \o outcome.text]

\* a bug: the error note stored in the wrong field
ErrorFields_WrongField(raw) ==
    [optimized |-> ERROR_OCCURRED \o raw, improvements |-> EmptyStr,
     edge_cases |-> EmptyStr, performance |-> EmptyStr]

\* the mapping built when the returned string starts with "ERROR:"
ErrorFields(raw) ==
    [optimized |-> EmptyStr, improvements |-> EmptyStr,
     edge_cases |-> EmptyStr, performance |-> ERROR_OCCURRED \o raw]

\* a bug: the raw-response note left out of the else branch
ReplyFields_NoRawNote(raw) == parse_response(raw)

\* the else branch: parse_response, and the raw-response note when all four
\* sections came back empty
ReplyFields(raw) ==
    LET parsed == parse_response(raw)
    IN  IF \A k \in Keys : parsed[k] = EmptyStr
        THEN [parsed EXCEPT !["performance"] =
                  RAW_RESPONSE \o Prefix(raw, RawLimit) \o ELLIPSIS]
        ELSE parsed

\* "if result.startswith("ERROR:"): ... else: ..."
ParsedFields(raw) ==
    IF StartsWith(raw, ERROR_TAG) THEN ErrorFields(raw) ELSE ReplyFields(raw)

\* the entry appended for record number i
ResultEntry(i, expr, raw) ==
    LET parsed == ParsedFields(raw)
    IN  [number |-> i,
         measure_name |-> expr.measure_name,
         original |-> expr.dax_code,
         optimized |-> parsed["optimized"],
         improvements |-> parsed["improvements"],
         edge_cases |-> parsed["edge_cases"],
         performance |-> parsed["performance"],
         raw_response |-> raw]

-----------------------------------------------------------------------------
(* Inputs of a run: a document of up to MaxRunLines lines of RunLinePool,  *)
(* and for each external call either a reply of Replies or an exception    *)
(* whose message is one of ErrorMessages.                                  *)

\* longest document, in lines, a whole run is started on
MaxRunLines == 4

\* '=========-'
RunLinePool == { <<"[", "M", "]">>, <<"[", "N", "]">>, <<" ", "x", " ">>, <<"=", "=", "=", "=", "=", "=", "=", "=", "=", "-">> }

RunDocuments == UNION { [1..n -> RunLinePool] : n \in 1..MaxRunLines }

Replies ==
    \* 'OPTIMIZED DAX:\nSUM(x)\nPERFORMANCE NOTES:\nfast'
    { <<"O", "P", "T", "I", "M", "I", "Z", "E", "D", " ", "D", "A", "X", ":", "\n", "S", "U", "M", "(", "x", ")", "\n", "P", "E", "R", "F", "O", "R", "M", "A", "N", "C", "E", " ", "N", "O", "T", "E", "S", ":", "\n", "f", "a", "s", "t">>,  \* two sections
      <<"S", "U", "M", "(", "x", ")">>,                                            \* no header
      \* 'OPTIMIZED DAX:'
      <<"O", "P", "T", "I", "M", "I", "Z", "E", "D", " ", "D", "A", "X", ":">>,                                    \* a header and nothing else
      \* 'ERROR: no such column'
      <<"E", "R", "R", "O", "R", ":", " ", "n", "o", " ", "s", "u", "c", "h", " ", "c", "o", "l", "u", "m", "n">>,                             \* a reply that reports an error
      <<>> }                                                 \* an empty reply

\* 'timeout'
ErrorMessages == { <<"t", "i", "m", "e", "o", "u", "t">>, <<>> }

Outcomes ==
    { [kind |-> "reply", text |-> r] : r \in Replies }
        \cup { [kind |-> "failure", text |-> m] : m \in ErrorMessages }

\* process_dax_file entered: nothing read yet
Init ==
    /\ pc = "read"
    /\ variant = "full"
    /\ \E ls \in RunDocuments : content = Join(ls)
    /\ SegIdle
    /\ ExtIdle
    /\ RunIdle

\* open() or read() raises: the error is printed and the run returns
ReadFails ==
    /\ pc = "read"
    /\ pc' = "read_failed"
    /\ UNCHANGED <<variant, content, lines, pos, segVars, extVars, runVars>>

\* a bug: the empty check left out, so the report of no entries is written
NoExpressions_WritesReport ==
    /\ pc = "read"
    /\ parse_dax_file(content, variant) = <<>>
    /\ written' = TRUE
    /\ pc' = "done"
    /\ UNCHANGED <<variant, content, lines, pos, segVars, extVars, results, outcomes>>

\* the file is read and parse_dax_file finds no expression: return
NoExpressions ==
    /\ pc = "read"
    /\ parse_dax_file(content, variant) = <<>>
    /\ pc' = "no_expressions"
    /\ UNCHANGED <<variant, content, lines, pos, segVars, extVars, runVars>>

\* the file is read and parse_dax_file finds expressions: results = []
ExpressionsFound ==
    /\ pc = "read"
    /\ parse_dax_file(content, variant) # <<>>
    /\ expressions' = parse_dax_file(content, variant)
    /\ results' = <<>>
    /\ pc' = "loop"
    /\ UNCHANGED <<variant, content, lines, pos, current_measure, current_dax,
                   in_dax_block, extVars, outcomes, written>>

\* the body of "for i, expr in enumerate(expressions, 1)" when the external
\* call does `outcome'
LoopBody(outcome) ==
    LET i == Len(results) + 1
        call == optimize_dax_expression(outcome)
    IN  /\ outcomes' = Append(outcomes, outcome)
        /\ IF call.raised
           THEN /\ pc' = "raised"
                /\ results' = results
           ELSE /\ pc' = "loop"
                /\ results' = Append(results, ResultEntry(i, expressions[i], call.value))
        /\ UNCHANGED <<variant, content, lines, pos, segVars, extVars, written>>

\* an iteration in which the collaborator returns a reply
CallReplies ==
    /\ pc = "loop"
    /\ variant = "full"
    /\ Len(results) < Len(expressions)
    /\ \E r \in Replies : LoopBody([kind |-> "reply", text |-> r])

\* an iteration in which the collaborator call raises
CallRaises ==
    /\ pc = "loop"
    /\ variant = "full"
    /\ Len(results) < Len(expressions)
    /\ \E m \in ErrorMessages : LoopBody([kind |-> "failure", text |-> m])

\* after the loop: write_markdown_output and write_debug_output
WriteOutput ==
    /\ pc = "loop"
    /\ Len(results) = Len(expressions)
    /\ written' = TRUE
    /\ pc' = "done"
    /\ UNCHANGED <<variant, content, lines, pos, segVars, extVars, results, outcomes>>

Next ==
    \/ ReadFails
    \/ NoExpressions
    \/ ExpressionsFound
    \/ CallReplies
    \/ CallRaises
    \/ WriteOutput

Spec == Init /\ [][Next]_vars


-----------------------------------------------------------------------------
(* process_file of the simple variant: the same reading and empty check,   *)
(* then a loop that stores the returned string as it is.  SpecRun runs     *)
(* either variant on a document of RunDocuments or of FolderDocuments,     *)
(* which the two variants segment differently.                             *)

\* optimize_dax for one outcome of the external call
optimize_dax(outcome) ==
    IF outcome.kind = "reply" THEN outcome.text ELSE ERROR_PREFIX \o outcome.text

\* the entry process_file appends for record number i
SimpleEntry(i, expr, reply) ==
    [num |-> i, name |-> expr.measure_name, original |-> expr.dax_code,
     response |-> reply]

\* '[Folder]', '[Folder]'
FolderDocuments == { << <<"[", "F", "o", "l", "d", "e", "r", "]">> >>, << <<"[", "F", "o", "l", "d", "e", "r", "]">>, <<" ", "x", " ">> >> }

InitRun ==
    /\ pc = "read"
    /\ variant \in Variants
    /\ \E ls \in RunDocuments \cup FolderDocuments : content = Join(ls)
    /\ SegIdle
    /\ ExtIdle
    /\ RunIdle

\* an iteration of process_file's loop
SimpleCall ==
    /\ pc = "loop"
    /\ variant = "simple"
    /\ Len(results) < Len(expressions)
    /\ \E outcome \in Outcomes :
          /\ outcomes' = Append(outcomes, outcome)
          /\ results' = Append(results,
                SimpleEntry(Len(results) + 1, expressions[Len(results) + 1],
                            optimize_dax(outcome)))
    /\ UNCHANGED <<pc, variant, content, lines, pos, segVars, extVars, written>>

NextRun ==
    \/ ReadFails
    \/ NoExpressions
    \/ ExpressionsFound
    \/ CallReplies
    \/ CallRaises
    \/ SimpleCall
    \/ WriteOutput

SpecRun == InitRun /\ [][NextRun]_vars
-----------------------------------------------------------------------------
(* Claims about the segmenter, checked under SpecSegment.                  *)

\* the class of a line by its text alone: the content test without the flag
Kind(line) == LineClass(line, variant, TRUE)

Taken == 1..(pos - 1)

\* the end of the block opened at line m: the next separator or identifier
\* line, or one past the last line
BlockEnd(m) ==
    LET stops == { j \in (m + 1)..Len(lines) : Kind(lines[j]) \in {"separator", "measure"} }
    IN  IF stops = {} THEN Len(lines) + 1
        ELSE CHOOSE j \in stops : \A h \in stops : j <= h

MeasureLines == { j \in 1..Len(lines) : Kind(lines[j]) = "measure" }

\* the trimmed content lines of the block opened at line m, in order
RECURSIVE BlockBody(_, _)
BlockBody(from, to) ==
    IF from > to THEN <<>>
    ELSE IF Kind(lines[from]) = "content"
    THEN <<Strip(lines[from])>> \o BlockBody(from + 1, to)
    ELSE BlockBody(from + 1, to)

\* the document is made of well-formed blocks separated by separator lines:
\* every block is closed by a separator or by the end of the text, holds a
\* content line, and there is no header line and no content outside a block
WellFormed ==
    /\ \A j \in 1..Len(lines) : Kind(lines[j]) # "header"
    /\ \A m \in MeasureLines :
          /\ BlockEnd(m) \notin MeasureLines
          /\ BlockBody(m + 1, BlockEnd(m) - 1) # <<>>
    /\ \A j \in 1..Len(lines) :
          Kind(lines[j]) = "content" =>
              \E m \in MeasureLines : m < j /\ j < BlockEnd(m)

\* the k-th smallest element of a finite set of numbers
RECURSIVE Nth(_, _)
Nth(S, k) ==
    LET least == CHOOSE j \in S : \A h \in S : j <= h
    IN  IF k = 1 THEN least ELSE Nth(S \ {least}, k - 1)

ExpectedRecords ==
    [k \in 1..Cardinality(MeasureLines) |->
        LET m == Nth(MeasureLines, k)
        IN  [measure_name |-> Strip(lines[m]),
             dax_code |-> Join(BlockBody(m + 1, BlockEnd(m) - 1))]]

\* C1: a document of N well-formed blocks separated by separator lines
\* segments to exactly N records, in source order, each with a non-empty
\* identifier and a non-empty body equal to the block's trimmed content
\* lines joined by newline.
C1_WellFormedBlocks ==
    (pc = "seg_done" /\ WellFormed) =>
        /\ expressions = ExpectedRecords
        /\ \A k \in 1..Len(expressions) :
              /\ expressions[k].measure_name # EmptyStr
              /\ expressions[k].dax_code # EmptyStr
              /\ expressions[k].dax_code = Strip(expressions[k].dax_code)

\* two blocks with different identifiers, one of them of two content lines
C1_Witness ==
    /\ pc = "seg_done"
    /\ WellFormed
    /\ Len(expressions) = 2
    /\ expressions[1].measure_name # expressions[2].measure_name

\* the loop is about to take an identifier line that directly follows
\* another identifier line
SecondOfTwoIdentifiers ==
    /\ pc = "seg"
    /\ 1 < pos /\ pos <= Len(lines)
    /\ Kind(lines[pos - 1]) = "measure"
    /\ Kind(lines[pos]) = "measure"

\* C8: when an identifier line is immediately followed by another identifier
\* line, no record is emitted for the first and the second starts a fresh
\* record with an empty body buffer.
C8_ConsecutiveIdentifiers ==
    [][SecondOfTwoIdentifiers =>
          /\ expressions' = expressions
          /\ current_measure' = <<Strip(lines[pos])>>
          /\ current_dax' = <<>>
          /\ in_dax_block' = TRUE]_vars

\* both identifier lines taken, nothing emitted, the second one is open
C8_Witness ==
    /\ pc = "seg"
    /\ pos = 3
    /\ Kind(lines[1]) = "measure"
    /\ Kind(lines[2]) = "measure"
    /\ lines[1] # lines[2]
    /\ expressions = <<>>
    /\ current_measure = <<Strip(lines[2])>>

NoIdentifierTaken == \A j \in Taken : Kind(lines[j]) # "measure"

\* C9: content lines before any identifier line are discarded: they enter
\* no body, emit no record, and the records returned are those of the text
\* from the first identifier line on.
C9_ContentBeforeIdentifier ==
    /\ (pc \in {"seg", "seg_done"} /\ NoIdentifierTaken) =>
          /\ current_dax = <<>>
          /\ expressions = <<>>
          /\ ~in_dax_block
    /\ (pc = "seg_done" /\ MeasureLines # {}) =>
          expressions =
              parse_dax_file(
                  Join(SubSeq(lines, Nth(MeasureLines, 1), Len(lines))), variant)

\* a content line came first, and a later block was emitted
C9_Witness ==
    /\ pc = "seg_done"
    /\ Kind(lines[1]) = "content"
    /\ Len(expressions) >= 1

\* the loop is about to take a line that holds a skip-marker
HeaderAt ==
    /\ pc = "seg"
    /\ pos <= Len(lines)
    /\ is_header(Strip(lines[pos]), variant)

\* no line of a body buffer or of an emitted body holds a skip-marker
NoMarkerInBodies ==
    /\ \A k \in 1..Len(current_dax) : ~is_header(current_dax[k], variant)
    /\ \A k \in 1..Len(expressions) :
          \A j \in 1..Len(Split(expressions[k].dax_code)) :
              ~is_header(Split(expressions[k].dax_code)[j], variant)

\* C10: a line holding a header skip-marker enters no body and leaves the
\* identifier, the body lines, the open flag and the emitted records as
\* they are.
C10_HeaderLineIsDropped ==
    /\ []NoMarkerInBodies
    /\ [][HeaderAt => UNCHANGED segVars]_vars

\* a header line was taken while a record with a body line was open
C10_Witness ==
    /\ pc = "seg"
    /\ pos > 2
    /\ is_header(Strip(lines[pos - 1]), variant)
    /\ Kind(lines[pos - 2]) = "content"
    /\ current_dax # <<>>

-----------------------------------------------------------------------------
(* Claims about the extractor, checked under SpecExtract.                  *)

\* the reply is the four literal headers in order, each followed by one line
IsFourHeaderReply ==
    /\ Len(rlines) = 8
    /\ \A k \in 1..4 : rlines[2 * k - 1] = LiteralHeaders[k]

\* a line of text: neither blank nor a fence delimiter
IsText(line) == Strip(line) # EmptyStr /\ ~IsFence(line)

\* a line of text that is not itself taken for a section header
IsPlainText(line) == IsText(line) /\ HeaderKey(line) = None

EachKeyHasItsLine == \A k \in 1..4 : result[LiteralKeys[k]] = Strip(rlines[2 * k])

\* C2 as stated: whatever the four lines of text are, each key returns its
\* own line.  A text line that begins with a header phrase is itself taken
\* for a header, so its key stays empty.
C2_Original ==
    (pc = "ext_done" /\ IsFourHeaderReply /\ \A k \in 1..4 : IsText(rlines[2 * k]))
        => EachKeyHasItsLine

\* C2: for a reply of the four literal headers in order, each followed by
\* exactly one non-blank line that is itself neither recognised as a section
\* header nor a fence delimiter, each of the four keys equals its own
\* following line, trimmed.
C2_FourHeaders ==
    (pc = "ext_done" /\ IsFourHeaderReply /\ \A k \in 1..4 : IsPlainText(rlines[2 * k]))
        => EachKeyHasItsLine

\* four plain lines, not all the same, one of them with blanks to trim
C2_Witness ==
    /\ pc = "ext_done"
    /\ IsFourHeaderReply
    /\ \A k \in 1..4 : IsPlainText(rlines[2 * k])
    /\ rlines[2] # rlines[4]
    /\ \E k \in 1..4 : Strip(rlines[2 * k]) # rlines[2 * k]
    /\ EachKeyHasItsLine

\* the reply without its fence-delimiter lines
RECURSIVE WithoutFenceLines(_)
WithoutFenceLines(ls) ==
    IF ls = <<>> THEN <<>>
    ELSE IF IsFence(Head(ls)) THEN WithoutFenceLines(Tail(ls))
    ELSE <<Head(ls)>> \o WithoutFenceLines(Tail(ls))

NoHeaderRecognised == \A j \in 1..Len(rlines) : HeaderKey(rlines[j]) = None

\* C3: for a reply in which no line is recognised as a section header,
\* optimized is the reply with its fence-delimiter lines removed and the
\* remainder trimmed, improvements is the placeholder, and edge_cases and
\* performance are empty.  The code removes the marker text, not the lines.
C3_FallbackStripsFenceLines ==
    (pc = "ext_done" /\ NoHeaderRecognised) =>
        /\ result["optimized"] = Strip(Join(WithoutFenceLines(rlines)))
        /\ result["improvements"] = PLACEHOLDER
        /\ result["edge_cases"] = EmptyStr
        /\ result["performance"] = EmptyStr

\* the keys some line of the reply is a header of
FoundKeys ==
    { k \in Keys : \E j \in 1..Len(rlines) : HeaderKey(rlines[j]) = <<k>> }

\* C4 as stated: a key whose section was not found is empty, always.  In the
\* fallback no section is found and two keys are filled.
C4_Original ==
    pc = "ext_done" =>
        /\ DOMAIN result = Keys
        /\ \A k \in Keys \ FoundKeys : result[k] = EmptyStr

\* C4: the mapping returned has exactly the four keys; when some header was
\* recognised, a key whose section was not found maps to the empty string;
\* when none was, edge_cases and performance are empty and improvements is
\* the placeholder.
C4_FourKeys ==
    /\ pc \in {"ext", "ext_done"} => DOMAIN result = Keys
    /\ (pc = "ext_done" /\ FoundKeys # {}) =>
          \A k \in Keys \ FoundKeys : result[k] = EmptyStr
    /\ (pc = "ext_done" /\ FoundKeys = {}) =>
          /\ result["improvements"] = PLACEHOLDER
          /\ result["edge_cases"] = EmptyStr
          /\ result["performance"] = EmptyStr

\* one section found and filled, the other three not found
C4_Witness ==
    /\ pc = "ext_done"
    /\ Cardinality(FoundKeys) = 1
    /\ \E k \in FoundKeys : result[k] # EmptyStr
    /\ \A k \in Keys \ FoundKeys : result[k] = EmptyStr

-----------------------------------------------------------------------------
(* Claims about the per-record loop, checked under Spec.                   *)

Failed(i) == outcomes[i].kind = "failure"

\* C5: whatever the external calls do (reply or failure), no exception
\* escapes the loop, the i-th entry carries the identifier and body of the
\* i-th record, and after the loop there is one entry per record.
C5_OneEntryPerRecord ==
    /\ pc # "raised"
    /\ Len(results) <= Len(expressions)
    /\ Len(outcomes) = Len(results)
    /\ \A i \in 1..Len(results) :
          /\ results[i].number = i
          /\ results[i].measure_name = expressions[i].measure_name
          /\ results[i].original = expressions[i].dax_code
    /\ written => Len(results) = Len(expressions)

\* a finished run over two records with different identifiers, one call failed
C5_Witness ==
    /\ written
    /\ Len(results) = 2
    /\ results[1].measure_name # results[2].measure_name
    /\ \E i \in 1..2 : Failed(i)
    /\ \E i \in 1..2 : ~Failed(i)

\* C6: the entry of a record whose external call failed has empty optimized,
\* improvements and edge_cases and a non-empty performance field that holds
\* the failure's message, and the loop goes on with the next record.
C6_FailureEntry ==
    /\ \A i \in 1..Len(results) :
          Failed(i) =>
              /\ results[i].optimized = EmptyStr
              /\ results[i].improvements = EmptyStr
              /\ results[i].edge_cases = EmptyStr
              /\ results[i].performance # EmptyStr
              /\ StartsWith(results[i].performance, ERROR_OCCURRED)
              /\ Contains(results[i].performance, outcomes[i].text)
    /\ (Len(results) >= 1 /\ Failed(Len(results)) /\ Len(results) < Len(expressions))
          => pc = "loop"

\* the first call failed with a message and the second record was processed
C6_Witness ==
    /\ Len(results) = 2
    /\ Failed(1)
    /\ outcomes[1].text # EmptyStr
    /\ ~Failed(2)
    /\ results[2].optimized # EmptyStr

\* the entry is the synthetic one of the error branch
IsSynthetic(entry) ==
    /\ entry.optimized = EmptyStr
    /\ entry.improvements = EmptyStr
    /\ entry.edge_cases = EmptyStr
    /\ entry.performance = ERROR_OCCURRED \o entry.raw_response

\* the entry holds what extraction makes of the reply
IsExtracted(entry, reply) ==
    /\ entry.raw_response = reply
    /\ \A k \in Keys : entry[k] = ReplyFields(reply)[k]

\* C7: extraction is bypassed and the synthetic entry recorded exactly when
\* the external call failed; every reply the collaborator returned is passed
\* to extraction.  The loop tells a failure from a reply by the text
\* "ERROR:" alone, so a reply that starts with it is handled as a failure.
C7_BypassIffFailed ==
    \A i \in 1..Len(results) :
        /\ IsSynthetic(results[i]) <=> Failed(i)
        /\ ~Failed(i) => IsExtracted(results[i], outcomes[i].text)


\* the four fields of an entry that hold what was extracted
FilledFields(entry) == { k \in Keys : entry[k] # EmptyStr }

\* C22: every entry the loop appends has a non-empty field among optimized,
\* improvements, edge_cases and performance: after a failed call performance
\* holds the error note, and when extraction returns four empty fields
\* performance holds the raw-response note.
C22_EntryNeverEmpty ==
    \A i \in 1..Len(results) :
        /\ FilledFields(results[i]) # {}
        /\ Failed(i) => StartsWith(results[i].performance, ERROR_OCCURRED)
        /\ (~Failed(i) /\ ~StartsWith(outcomes[i].text, ERROR_TAG)) =>
              \A parsed \in {parse_response(outcomes[i].text)} :
                  (\A k \in Keys : parsed[k] = EmptyStr)
                      => results[i].performance =
                             RAW_RESPONSE \o Prefix(outcomes[i].text, RawLimit) \o ELLIPSIS

\* a reply that is a header and nothing else: extraction returned four empty
\* fields and the entry holds the raw-response note alone; another call failed
C22_Witness ==
    /\ Len(results) = 2
    /\ \E i \in 1..2 :
          /\ ~Failed(i)
          /\ outcomes[i].text # EmptyStr
          /\ \A k \in Keys : parse_response(outcomes[i].text)[k] = EmptyStr
          /\ FilledFields(results[i]) = {"performance"}
          /\ StartsWith(results[i].performance, RAW_RESPONSE)
    /\ \E i \in 1..2 : Failed(i) /\ FilledFields(results[i]) = {"performance"}

-----------------------------------------------------------------------------
(* Claims about a whole run of either variant, checked under SpecRun.      *)

NoRecords == parse_dax_file(content, variant) = <<>>

\* nothing was called, recorded or written
NothingDone == outcomes = <<>> /\ results = <<>> /\ ~written

\* C13: when the document yields no record, the run of either variant
\* returns from the empty check: once the document is read it is at that
\* return and stays there, no exception is raised, no external call is
\* made, no result entry exists and no file is written.
C13_EmptyDocumentEndsRun ==
    /\ []((NoRecords /\ pc \notin {"read", "read_failed"})
            => (pc = "no_expressions" /\ NothingDone))
    /\ [][pc = "no_expressions" => (pc' = "no_expressions" /\ NothingDone')]_vars

\* the full variant takes "[Folder]" for a header line, so this document
\* has no record and the run has returned early
C13_Witness ==
    /\ pc = "no_expressions"
    /\ variant = "full"
    \* '[Folder]'
    /\ content = Join(<< <<"[", "F", "o", "l", "d", "e", "r", "]">>, <<" ", "x", " ">> >>)
    /\ NoRecords
    /\ NothingDone

\* the claim's fenced-code delimiter: a fence marker alone or with a tag
IsFenceDelimiter(line) == StartsWith(Strip(line), <<BT, BT, BT>>)

\* the reply is a header line, an opening fence, lines of code, a closing fence
IsFencedReply ==
    /\ Len(rlines) >= 4
    /\ HeaderKey(rlines[1]) # None
    /\ IsFenceDelimiter(rlines[2])
    /\ IsFenceDelimiter(rlines[Len(rlines)])
    /\ \A j \in 3..(Len(rlines) - 1) : ~IsFenceDelimiter(rlines[j])

IsNonBlank(line) == Strip(line) # EmptyStr

\* the non-blank lines between the two fences
CodeLines == SelectSeq(SubSeq(rlines, 3, Len(rlines) - 1), IsNonBlank)

NoFenceLineCaptured ==
    \A k \in Keys : \A text \in {Split(result[k])} :
        \A j \in 1..Len(text) : ~IsFenceDelimiter(text[j])

CodeIsCaptured ==
    /\ result[HeaderKey(rlines[1])[1]] = Strip(Join(CodeLines))
    /\ \A k \in Keys \ {HeaderKey(rlines[1])[1]} : result[k] = EmptyStr

\* C11 as stated: every non-blank line between the fences is captured in the
\* section.  A code line that begins with a header phrase is taken for a
\* header and is not captured.
C11_Original ==
    /\ (pc \in {"ext", "ext_done"} /\ section_found) => NoFenceLineCaptured
    /\ (pc = "ext_done" /\ IsFencedReply) => CodeIsCaptured

\* C11: while a section is current no fence-delimiter line is ever part of
\* the captured text, and the non-blank lines between the opening and the
\* closing fence are captured in that section, in order, provided none of
\* them is itself recognised as a section header.
C11_FencedCode ==
    /\ (pc \in {"ext", "ext_done"} /\ section_found) => NoFenceLineCaptured
    /\ (pc = "ext_done" /\ IsFencedReply
            /\ \A j \in 3..(Len(rlines) - 1) : HeaderKey(rlines[j]) = None)
          => CodeIsCaptured

\* a fence with a tag other than dax, two lines of code and a blank-free body
C11_Witness ==
    /\ pc = "ext_done"
    /\ IsFencedReply
    /\ rlines[2] = <<BT, BT, BT, "s", "q", "l">>
    /\ Len(CodeLines) = 2
    /\ CodeLines[1] # CodeLines[2]
    /\ \A j \in 3..(Len(rlines) - 1) : HeaderKey(rlines[j]) = None
    /\ CodeIsCaptured

\* the number of lines of a returned section; the empty section has none
LineCount(text) == IF text = EmptyStr THEN 0 ELSE Len(Split(text))

SectionLines ==
    LineCount(result["optimized"]) + LineCount(result["improvements"])
        + LineCount(result["edge_cases"]) + LineCount(result["performance"])

HeaderLines == { j \in 1..Len(rlines) : HeaderKey(rlines[j]) # None }

\* the number of lines of the reply after its first recognised header line;
\* none when no header is recognised
LinesAfterFirstHeader ==
    IF HeaderLines = {} THEN 0
    ELSE Len(rlines) - (CHOOSE j \in HeaderLines : \A h \in HeaderLines : j <= h)

\* C12 as stated: for every reply.  In the fallback no header is recognised
\* and still optimized and improvements are filled.
C12_Original == pc = "ext_done" => SectionLines <= LinesAfterFirstHeader

\* C12: for every reply in which at least one header line is recognised,
\* the line counts of the four returned sections sum to at most the number
\* of reply lines that follow the first recognised header line.
C12_SectionLinesBounded ==
    (pc = "ext_done" /\ HeaderLines # {}) => SectionLines <= LinesAfterFirstHeader

\* two sections filled, with a second header line among the lines that follow
C12_Witness ==
    /\ pc = "ext_done"
    /\ HeaderLines # {}
    /\ Cardinality({ k \in Keys : result[k] # EmptyStr }) >= 2
    /\ SectionLines >= 2
    /\ SectionLines < LinesAfterFirstHeader

\* the case-folded trimmed text of a line
Folded(line) == Strip(Upper(line))

\* text without its first n characters
Drop(text, n) == IF Len(text) <= n THEN EmptyStr ELSE SubSeq(text, n + 1, Len(text))

\* text starts with one to three heading markers followed, after optional
\* blanks, by the phrase
HeadingOf(text, phrase) ==
    \E n \in 1..3 :
        /\ Len(text) >= n
        /\ \A j \in 1..n : text[j] = "#"
        /\ StartsWith(LStrip(Drop(text, n)), phrase)

\* the table entries the claim's rule takes the folded text for a header of
ClaimedOfFolded(text) ==
    { k \in 1..Len(sections) :
        \/ StartsWith(text, sections[k][1])
        \/ StartsWith(text, <<"*", "*">> \o sections[k][1])
        \/ HeadingOf(text, sections[k][1]) }

ClaimedEntries(line) == UNION { ClaimedOfFolded(text) : text \in {Folded(line)} }

\* the table entries the folded text is a header of: the phrase is in the
\* text, which starts with it, with a bold pair and it, or with two heading
\* markers
EntriesOfFolded(text) ==
    { k \in 1..Len(sections) :
        /\ Contains(text, sections[k][1])
        /\ \/ StartsWith(text, sections[k][1])
           \/ StartsWith(text, <<"*", "*">> \o sections[k][1])
           \/ StartsWith(text, <<"#", "#">>) }

HeaderEntries(line) == UNION { EntriesOfFolded(text) : text \in {Folded(line)} }

ExtAtLine == pc = "ext" /\ rpos <= Len(rlines)

\* C14 as stated: one to three heading markers followed by the phrase make a
\* header, and nothing else with a heading marker does.  The code takes no
\* line with a single marker, and takes every line with two or more markers
\* that holds a phrase anywhere.
C14_Original ==
    [][ExtAtLine =>
          \A hits \in {ClaimedEntries(rlines[rpos])} :
              IF hits # {}
              THEN /\ \E k \in hits : current_section' = <<sections[k][2]>>
                   /\ result' = result
              ELSE current_section' = current_section]_vars

\* C14: a line is a section header exactly when its case-folded trimmed
\* text holds a header phrase and starts with that phrase, with a bold pair
\* immediately followed by it, or with two or more heading markers; such a
\* line sets the current section to the label of the first table entry that
\* matches and is appended to no section, and no other line changes the
\* current section.
C14_HeaderRecognition ==
    [][ExtAtLine =>
          \A hits \in {HeaderEntries(rlines[rpos])} :
              IF hits # {}
              THEN /\ current_section' =
                        <<sections[CHOOSE k \in hits : \A h \in hits : k <= h][2]>>
                   /\ section_found'
                   /\ result' = result
              ELSE current_section' = current_section]_vars

\* the heading with the phrase further on has just changed the section, and
\* the single-marker heading before it had not
C14_Witness ==
    /\ pc = "ext"
    /\ rpos = 4
    \* '#Performance'
    /\ rlines[1] = <<"#", "P", "e", "r", "f", "o", "r", "m", "a", "n", "c", "e">>
    \* '## Notes on performance'
    /\ rlines[3] = <<"#", "#", " ", "N", "o", "t", "e", "s", " ", "o", "n", " ", "p", "e", "r", "f", "o", "r", "m", "a", "n", "c", "e">>
    /\ current_section = <<"performance">>
    /\ result = [k \in Keys |-> EmptyStr]

-----------------------------------------------------------------------------
(* Further claims about the segmenter, checked under SpecSegment.          *)

\* the class of a trimmed text by the priority separator, header,
\* identifier, content, blank
TextClass(text) ==
    IF is_separator(text) THEN "separator"
    ELSE IF is_header(text, variant) THEN "header"
    ELSE IF is_measure_name(text) THEN "identifier"
    ELSE IF text # EmptyStr THEN "content"
    ELSE "blank"

SegAtLine == pc = "seg" /\ pos <= Len(lines)

\* what the loop does with a line of the class: a separator closes the
\* record, a header and a blank line change nothing, an identifier opens a
\* record, a content line joins the open record if there is one (what a
\* separator or an identifier emits is the subject of other claims)
HandledAs(class, text) ==
    CASE class = "separator" ->
            /\ current_measure' = None
            /\ current_dax' = <<>>
            /\ in_dax_block' = FALSE
      [] class = "header" -> UNCHANGED segVars
      [] class = "identifier" ->
            /\ current_measure' = <<text>>
            /\ current_dax' = <<>>
            /\ in_dax_block' = TRUE
      [] class = "content" ->
            IF in_dax_block
            THEN /\ current_dax' = Append(current_dax, text)
                 /\ UNCHANGED <<current_measure, in_dax_block, expressions>>
            ELSE UNCHANGED segVars
      [] class = "blank" -> UNCHANGED segVars

\* C15: each line has exactly one class, fixed by its trimmed text alone
\* with the priority separator, header, identifier, content, blank, and the
\* loop handles the line as that class: a line that matches several rules is
\* handled as the first of them.
C15_PriorityClassification ==
    [][SegAtLine =>
          \A text \in {Strip(lines[pos])} : HandledAs(TextClass(text), text)]_vars

\* a line that matches the header rule and the identifier rule was taken
\* while a record was open, and the record's identifier is still the old one
C15_Witness ==
    /\ pc = "seg"
    /\ pos > 2
    /\ is_header(Strip(lines[pos - 1]), variant)
    /\ is_measure_name(Strip(lines[pos - 1]))
    /\ Kind(lines[pos - 2]) = "measure"
    /\ current_measure = <<Strip(lines[pos - 2])>>
    /\ in_dax_block

RECURSIVE LastBoundary(_)
\* the class of the nearest separator or identifier line among the first n
\* lines, "none" when there is neither
LastBoundary(n) ==
    IF n = 0 THEN "none"
    ELSE IF Kind(lines[n]) \in {"separator", "measure"} THEN Kind(lines[n])
    ELSE LastBoundary(n - 1)

\* the nearest separator or identifier line above line n + 1 is a separator
AfterSeparator(n) == LastBoundary(n) = "separator"

InitialLocals == current_measure = None /\ current_dax = <<>> /\ ~in_dax_block

\* the content lines that stand after a separator and before the next
\* identifier line
StrayLines == { j \in 1..Len(lines) : Kind(lines[j]) = "content" /\ AfterSeparator(j - 1) }

RECURSIVE Keep(_, _)
\* the lines from line `from' on whose index is not in S
Keep(from, S) ==
    IF from > Len(lines) THEN <<>>
    ELSE IF from \in S THEN Keep(from + 1, S)
    ELSE <<lines[from]>> \o Keep(from + 1, S)

\* C16: a separator line always leaves the state initial (no identifier,
\* empty body, not open), whether the open record was complete or not; the
\* state stays initial until the next identifier line, so a content line in
\* between changes nothing, and the records returned are those of the
\* document without such lines.
C16_SeparatorResets ==
    /\ []((pc = "seg" /\ AfterSeparator(pos - 1)) => InitialLocals)
    /\ []((pc = "seg_done" /\ StrayLines # {}) =>
              expressions = parse_dax_file(Join(Keep(1, StrayLines)), variant))
    /\ [][(SegAtLine /\ is_separator(Strip(lines[pos]))) => InitialLocals']_vars
    /\ [][(SegAtLine /\ AfterSeparator(pos - 1) /\ Kind(lines[pos]) = "content")
            => UNCHANGED segVars]_vars

\* an identifier without a body, a separator, a content line: all three
\* taken, the state is initial and nothing was emitted
C16_Witness ==
    /\ pc = "seg"
    /\ pos = 4
    /\ Kind(lines[1]) = "measure"
    /\ Kind(lines[2]) = "separator"
    /\ Kind(lines[3]) = "content"
    /\ InitialLocals
    /\ expressions = <<>>

\* the loop has taken every line
AtEnd == pc = "seg" /\ pos > Len(lines)

\* C17: at the end of the input an open record with an identifier and at
\* least one content line is emitted as the last record, its body the
\* content lines joined by newline; an open record without a content line
\* emits nothing; this is what a separator line would have emitted.
C17_FinalFlush ==
    [][AtEnd =>
          /\ expressions' =
                IF current_measure # None /\ current_dax # <<>>
                THEN Append(expressions,
                            [measure_name |-> current_measure[1],
                             dax_code |-> Join(current_dax)])
                ELSE expressions
          /\ expressions' = OnSeparator(SegState).expressions]_vars

\* the input ended on a content line of an open record after an earlier
\* record, and the open record is the last one returned
C17_Witness ==
    /\ pc = "seg_done"
    /\ Kind(lines[Len(lines)]) = "content"
    /\ Len(expressions) = 2
    /\ current_measure # None
    /\ expressions[2].measure_name = current_measure[1]
    /\ expressions[2].dax_code = Join(current_dax)

\* the identifier lines followed by at least one content line before the
\* next separator, identifier line or the end
CompleteBlocks == { m \in MeasureLines : BlockBody(m + 1, BlockEnd(m) - 1) # <<>> }

\* a record has an identifier and a trimmed body of one or more non-blank lines
IsRecord(r) ==
    /\ r.measure_name # EmptyStr
    /\ r.dax_code # EmptyStr
    /\ r.dax_code = Strip(r.dax_code)
    /\ \A body \in {Split(r.dax_code)} :
          \A j \in 1..Len(body) : Strip(body[j]) # EmptyStr

\* C18: whatever the input, every record held or returned has a non-empty
\* identifier and a non-empty trimmed body of one or more lines, and there
\* are as many records as identifier lines with a content line of their own:
\* an identifier line without one yields no record.
C18_RecordsAreComplete ==
    /\ pc \in {"seg", "seg_done"} =>
          \A k \in 1..Len(expressions) : IsRecord(expressions[k])
    /\ pc = "seg_done" => Len(expressions) = Cardinality(CompleteBlocks)

\* an input that is not well-formed: an identifier without content and one
\* with two content lines, which is the only record
C18_Witness ==
    /\ pc = "seg_done"
    /\ Cardinality(MeasureLines) = 2
    /\ Cardinality(CompleteBlocks) = 1
    /\ Len(expressions) = 1
    /\ Len(Split(expressions[1].dax_code)) = 2

\* C19: the identifiers of the records returned are, in order, the trimmed
\* identifier lines that have a content line of their own, so they form a
\* subsequence in document order of the identifier lines; nothing is
\* deduplicated: two such lines with the same text give two records.
C19_DocumentOrder ==
    pc = "seg_done" =>
        \A blocks \in {CompleteBlocks} :
            /\ Len(expressions) = Cardinality(blocks)
            /\ \A k \in 1..Len(expressions) :
                  expressions[k].measure_name = Strip(lines[Nth(blocks, k)])

\* two complete blocks with the same identifier: two records with that name
C19_Witness ==
    /\ pc = "seg_done"
    /\ Cardinality(CompleteBlocks) = 2
    /\ Len(expressions) = 2
    /\ expressions[1].measure_name = expressions[2].measure_name

\* C20: after any prefix of lines the open flag is set exactly when an
\* identifier is held, and the body buffer holds lines only while open.
C20_OpenFlag ==
    pc \in {"seg", "seg_done"} =>
        /\ in_dax_block <=> current_measure # None
        /\ current_dax # <<>> => in_dax_block

\* a record with a body line is open after an earlier one was closed
C20_Witness ==
    /\ pc = "seg"
    /\ in_dax_block
    /\ current_measure # None
    /\ current_dax # <<>>
    /\ \E j \in Taken : Kind(lines[j]) = "separator"

OtherVariant == IF variant = "full" THEN "simple" ELSE "full"

\* the lines that hold "Folder" and not "DAX MEASURES"
FolderOnlyLines ==
    { j \in 1..Len(lines) :
        Contains(lines[j], Folder) /\ ~Contains(lines[j], DAX_MEASURES) }

\* C21: on an input none of whose lines holds "Folder" without holding
\* "DAX MEASURES", and so on every input without "Folder", the records one
\* variant returns are those the other variant returns for the same text.
C21_VariantsAgree ==
    (pc = "seg_done" /\ FolderOnlyLines = {}) =>
        expressions = parse_dax_file(content, OtherVariant)

\* the input holds "Folder" on lines that hold "DAX MEASURES" too, one of
\* them bracketed, and both variants return the one record of two lines
C21_Witness ==
    /\ pc = "seg_done"
    /\ FolderOnlyLines = {}
    /\ \E j \in 1..Len(lines) : Contains(lines[j], Folder)
    /\ \E j \in 1..Len(lines) : is_measure_name(Strip(lines[j])) /\ Contains(lines[j], DAX_MEASURES)
    /\ Len(expressions) = 1
    /\ Len(Split(expressions[1].dax_code)) = 2
    /\ expressions = parse_dax_file(content, OtherVariant)

====
